---------------------------- MODULE Spec2Model ----------------------------
(***************************************************************************)
(* A model of logger.py, the experiment-run harness: the run-directory     *)
(* lifecycle (setup_experiment_directory, capture_environment_info,        *)
(* copy_external_code, load_data_paths, run_experiment / log_terminal)     *)
(* and the two orchestrations that drive it (the __main__ block and        *)
(* start_experiment).                                                      *)
(*                                                                         *)
(* Text (paths, file lines) is a sequence of one-character strings, so     *)
(* that strip, split, basename, abspath and relpath are computed the way   *)
(* the Python library computes them.                                       *)
(***************************************************************************)
EXTENDS Integers, Sequences, FiniteSets, TLC

----------------------------------------------------------------------------
(* Bounds of the model *)

\* most lines in codepaths.txt / datapaths.txt
MaxLines == 2
\* most lines the child entry script prints
MaxOut == 2
\* the child exits with a status in 0..MaxExit
MaxExit == 1
\* most calls of start_experiment by the embedding script
MaxStarts == 2
\* most writes of the embedding script to sys.stdout / sys.stderr
MaxWrites == 2
\* most calls of load_data_paths in the data-path specification
MaxLoads == 3
\* most edits of datapaths.txt / of path existence in that specification
MaxEdits == 2

----------------------------------------------------------------------------
(* Text helpers *)

\* str.strip() removes these from both ends ("\n" ends every line of a file)
IsSpace(c) == c \in {" ", "\n"}

RECURSIVE lstrip(_)
lstrip(s) == IF s # <<>> /\ IsSpace(Head(s)) THEN lstrip(Tail(s)) ELSE s

RECURSIVE rstrip(_)
rstrip(s) ==
    IF s # <<>> /\ IsSpace(s[Len(s)]) THEN rstrip(SubSeq(s, 1, Len(s) - 1)) ELSE s

strip(s) == rstrip(lstrip(s))

\* c in s
Contains(s, c) == \E i \in 1..Len(s) : s[i] = c

\* s.split("=", 1) for an s that holds "=": the text before the first "=" and
\* the text after it
FirstIndex(s, c) == CHOOSE i \in 1..Len(s) : s[i] = c /\ \A j \in 1..(i-1) : s[j] # c
LastIndex(s, c) == CHOOSE i \in 1..Len(s) : s[i] = c /\ \A j \in (i+1)..Len(s) : s[j] # c

split1(s) ==
    LET i == FirstIndex(s, "=")
    IN  <<SubSeq(s, 1, i - 1), SubSeq(s, i + 1, Len(s))>>

\* os.path.basename: the text after the last "/"
basename(p) ==
    IF Contains(p, "/") THEN SubSeq(p, LastIndex(p, "/") + 1, Len(p)) ELSE p

\* os.path.normpath, as far as the paths of the model need it: trailing
\* separators are dropped (the root stays)
RECURSIVE normpath(_)
normpath(p) ==
    IF Len(p) > 1 /\ p[Len(p)] = "/" THEN normpath(SubSeq(p, 1, Len(p) - 1)) ELSE p

\* the working directory of the process
Cwd == <<"/", "w">>

\* os.path.abspath: a relative path is joined to the working directory
abspath(p) ==
    IF p # <<>> /\ p[1] = "/" THEN normpath(p) ELSE normpath(Cwd \o <<"/">> \o p)

\* "\n".join(lines) + "\n"
RECURSIVE JoinNl(_)
JoinNl(lines) ==
    IF lines = <<>> THEN <<>>
    ELSE IF Len(lines) = 1 THEN lines[1]
    ELSE lines[1] \o <<"\n">> \o JoinNl(Tail(lines))

\* the lines of a text as a reader (readlines) sees them: one per "\n", and one
\* more for text after the last "\n"
RECURSIVE CountNl(_)
CountNl(t) ==
    IF t = <<>> THEN 0 ELSE (IF Head(t) = "\n" THEN 1 ELSE 0) + CountNl(Tail(t))

LineCount(t) ==
    CountNl(t) + (IF t # <<>> /\ t[Len(t)] # "\n" THEN 1 ELSE 0)

\* sequences over S of length at most n
RECURSIVE SeqsUpTo(_, _)
SeqsUpTo(S, n) ==
    IF n = 0 THEN {<<>>}
    ELSE LET shorter == SeqsUpTo(S, n - 1)
         IN  shorter \cup {Append(s, x) : s \in shorter, x \in S}

\* a file: absent, or present with its lines
NoFile == [ex |-> FALSE, lines |-> <<>>]
File(ls) == [ex |-> TRUE, lines |-> ls]


----------------------------------------------------------------------------
(* The files outside the run directory *)

\* CURR_DIR, the directory of logger.py, and EXP_DIR = CURR_DIR + "_[<timestamp>]"
CURR_DIR == <<"/", "s">>
EXP_DIR == CURR_DIR \o <<"_", "t">>
join(a, b) == a \o <<"/">> \o b
CODE_DIR == join(EXP_DIR, <<"C">>)
RESULTS_DIR == join(EXP_DIR, <<"R">>)

\* os.path.relpath(p, start) for a p below start
relpath(p, start) == LET q == normpath(p) IN SubSeq(q, Len(start) + 2, Len(q))

\* The external code trees on disk: two trees with the same base name, and a
\* regular file.  A tree holds files and, the first one, a subdirectory.
ExternalDirs == {<<"/", "x", "/", "l">>, <<"/", "y", "/", "l">>}
ExternalFiles == {<<"/", "x", "/", "f">>}
TreeFiles(p) == IF p = <<"/", "x", "/", "l">> THEN {"a"} ELSE {"a", "b"}
TreeDirs(p) == IF p = <<"/", "x", "/", "l">> THEN {<<"s">>} ELSE {}

IsDir(p) == p # <<>> /\ normpath(p) \in ExternalDirs
IsFile(p) == p \in ExternalFiles
\* os.path.exists
PathExists(p) == IsDir(p) \/ IsFile(p)

\* the lines codepaths.txt is made of
CodeLines ==
    { <<"/", "x", "/", "l", "\n">>,       \* an existing tree
      <<"/", "y", "/", "l", "\n">>,       \* another tree with the same base name
      <<"/", "x", "/", "l", "/", "\n">>,  \* a tree, written with a trailing separator
      <<"/", "x", "/", "f", "\n">>,       \* an existing regular file
      <<"/", "g", "\n">>,                 \* a path that does not exist
      <<"\n">> }                          \* a blank line

\* the data paths and the lines datapaths.txt is made of
DataPathNames == {<<"/", "d">>, <<"r">>}
DataLines ==
    { <<"k", "=", "/", "d", "\n">>,
      <<"k", "=", "r", "\n">>,
      <<" ", "j", "=", "/", "d", " ", "\n">>,
      <<"/", "d", "\n">> }                \* a line without "="

RECURSIVE Flatten(_)
Flatten(ls) == IF ls = <<>> THEN <<>> ELSE Head(ls) \o Flatten(Tail(ls))

----------------------------------------------------------------------------
(* load_data_paths *)

\* DATA_PATHS[key] = value
StoreAppend(m, key, value) ==
    [k \in DOMAIN m \cup {key} |->
        IF k = key THEN (IF key \in DOMAIN m THEN m[key] ELSE <<>>) \o value ELSE m[k]]

StoreDataPath(m, key, value) ==
    [k \in DOMAIN m \cup {key} |-> IF k = key THEN value ELSE m[k]]

\* one line of datapaths.txt: the map after it
LoadLine(m, line, exists) ==
    IF Contains(line, "=")
    THEN LET kv == split1(strip(line))
         IN  IF kv[2] \in exists
             THEN StoreDataPath(m, kv[1], abspath(kv[2]))
             ELSE m
    ELSE m

\* the warning a line prints, if any
LineWarns(line, exists) ==
    Contains(line, "=") /\ split1(strip(line))[2] \notin exists

RECURSIVE LoadLines(_, _, _)
LoadLines(m, lines, exists) ==
    IF lines = <<>> THEN m
    ELSE LoadLines(LoadLine(m, Head(lines), exists), Tail(lines), exists)

RECURSIVE LoadWarnings(_, _)
LoadWarnings(lines, exists) ==
    IF lines = <<>> THEN <<>>
    ELSE (IF LineWarns(Head(lines), exists) THEN <<"warn_data">> ELSE <<>>)
         \o LoadWarnings(Tail(lines), exists)

\* the body of load_data_paths: DATA_PATHS after the call, from DATA_PATHS
\* before it
LoadDataPaths(m, file, exists) ==
    IF file.ex THEN LoadLines(m, file.lines, exists) ELSE m

EmptyMap == [k \in {} |-> <<>>]

\* get_data_path: the value, or None (here the empty text)
get_data_path(m, key) == IF key \in DOMAIN m THEN m[key] ELSE <<>>

----------------------------------------------------------------------------
(* copy_external_code *)

NoStage == [dirs |-> [n \in {} |-> {}], files |-> {}, new |-> <<>>,
            copied |-> FALSE, failed |-> FALSE]

\* shutil.copytree(code_path, join(CODE_DIR, base), dirs_exist_ok=True): the
\* tree's entries are merged into the directory of that name, or into Code
\* itself when the base name is empty.  dirs maps each directory under Code
\* to the files in it.
CopyTree(acc, path) ==
    LET base == basename(path)
        fs == TreeFiles(normpath(path))
        ds == TreeDirs(normpath(path))
    IN  IF base = <<>>
        THEN [acc EXCEPT
                 !.files = @ \cup fs,
                 !.dirs = [n \in DOMAIN acc.dirs \cup ds |->
                              IF n \in DOMAIN acc.dirs THEN acc.dirs[n] ELSE {}],
                 !.copied = TRUE]
        ELSE [acc EXCEPT
                 !.dirs = [n \in DOMAIN acc.dirs \cup {base} |->
                              IF n = base
                              THEN (IF base \in DOMAIN acc.dirs THEN acc.dirs[base] ELSE {})
                                   \cup fs
                              ELSE acc.dirs[n]],
                 !.copied = TRUE]

\* one line of codepaths.txt
StageLineOnce(acc, line) ==
    LET code_path == strip(line)
        rel == relpath(join(CODE_DIR, basename(code_path)), EXP_DIR)
    IN  IF acc.failed \/ ~PathExists(code_path) THEN acc
        ELSE IF ~IsDir(code_path) THEN [acc EXCEPT !.failed = TRUE]
        ELSE IF Contains(acc.new, rel) THEN CopyTree(acc, code_path)
        ELSE [CopyTree(acc, code_path) EXCEPT !.new = Append(@, rel)]

StageLine(acc, line) ==
    LET code_path == strip(line)
    IN  IF acc.failed \/ ~PathExists(code_path) THEN acc
        ELSE IF ~IsDir(code_path) THEN [acc EXCEPT !.failed = TRUE]
        ELSE [CopyTree(acc, code_path) EXCEPT
                 !.new = Append(@, relpath(join(CODE_DIR, basename(code_path)), EXP_DIR))]

RECURSIVE StageLines(_, _)
StageLines(acc, lines) ==
    IF lines = <<>> THEN acc ELSE StageLines(StageLine(acc, Head(lines)), Tail(lines))

\* the text written to the run's codepaths.txt
RewrittenText(new) == JoinNl(new) \o <<"\n">>


----------------------------------------------------------------------------
(* State *)

VARIABLES
    \* the process
    mode,            \* "terminal" (python3 logger.py), "initialize"
                     \* (python3 logger.py --initialize) or "embedded" (a script
                     \* that imports logger)
    pc,              \* "import", "main", "user", "steps", "stream", "exit"
    steps,           \* the calls the running orchestration has still to make
    exc, excIn,      \* the exception raised last, and the function that raised it
    exitStatus,      \* the exit status of the process; -1 while it runs
    starts,          \* calls of start_experiment so far
    DATA_PATHS,      \* the module's map of data paths
    sysPath,         \* how many times CODE_DIR was put on sys.path
    teeOn,           \* sys.stdout and sys.stderr are Tee objects
    terminal,        \* what reached the terminal (the original streams)
    \* the source directory
    srcMainPy, srcMainSh, codepaths, datapaths, dataExists,
    \* the run directory
    expDir, codeDirE, resultsDirE,      \* EXP_DIR, Code and Results exist
    runMainPy, runMainSh, runCodepaths, runDatapaths,
    envReport,       \* Code/environment.txt
    codeDirs,        \* the directories under Code, each with its files
    codeFiles,       \* the files directly in Code, environment.txt aside
    logFile,         \* Results/terminal_output.txt
    logOpen,         \* the log file object is open
    \* the child process
    script, child, childExit, childOut, pipe,
    \* history
    consumed,        \* the lines run_experiment has read from the child
    sinkErr,         \* the sink whose write failed while streaming
    teeWrites,       \* the writes made through sys.stdout / sys.stderr
    mapBefore,       \* DATA_PATHS when the last load_data_paths began
    lastFresh,       \* what the last load_data_paths computes from an empty map
    unchangedAtCall, \* the file and the paths were as at the call before
    changed, loads, edits,
    lastSetup        \* the last setup_experiment_directory: the run directory
                     \* it found and what it raised

procVars == <<mode, pc, steps, exc, excIn, exitStatus, starts, sysPath, teeOn>>
srcVars == <<srcMainPy, srcMainSh, codepaths, datapaths, dataExists>>
runDir == <<expDir, codeDirE, resultsDirE, runMainPy, runMainSh, runCodepaths,
            runDatapaths, envReport, codeDirs, codeFiles, logFile>>
childVars == <<script, child, childExit, childOut, pipe, consumed, sinkErr>>
dataVars == <<DATA_PATHS, mapBefore, lastFresh, unchangedAtCall, changed, loads>>
vars == <<procVars, srcVars, runDir, childVars, dataVars, terminal, logOpen,
          teeWrites, edits, lastSetup>>

NoText == [ex |-> FALSE, text |-> <<>>]
Text(t) == [ex |-> TRUE, text |-> t]
\* shutil.copy of a file of lines
CopyOf(file) == IF file.ex THEN Text(Flatten(file.lines)) ELSE NoText

NoReport == [ex |-> FALSE, docker |-> "", slurm |-> "", node |-> ""]
NoLog == [ex |-> FALSE, lines |-> <<>>]

\* what the child prints, each line different from the others, and what the
\* embedding script writes
ChildLine(n) == <<"line 1", "line 2", "line 3", "line 4">>[n]
ChildLines == {ChildLine(n) : n \in 1..MaxOut}
UserTexts == {"o"}

\* the lifecycle calls of the two orchestrations
StagingBeforeSetup == <<"copy", "setup", "capture", "run">>
MainSteps == <<"setup", "capture", "copy", "run">>
StartSteps == <<"setup", "capture", "copy", "load", "tee">>

InitCommon ==
    /\ mode \in {"terminal", "initialize", "embedded"}
    /\ pc = "import"
    /\ steps = <<>>
    /\ exc = "none" /\ excIn = "none"
    /\ exitStatus = -1
    /\ starts = 0
    /\ DATA_PATHS = EmptyMap
    /\ sysPath = 0
    /\ teeOn = FALSE
    /\ terminal = <<>>
    /\ runMainPy = FALSE /\ runMainSh = FALSE
    /\ runCodepaths = NoText /\ runDatapaths = NoText
    /\ envReport = NoReport
    /\ codeDirs = [n \in {} |-> {}]
    /\ codeFiles = {}
    /\ logFile = NoLog
    /\ logOpen = FALSE
    /\ script = "none" /\ child = "none" /\ childExit = -1 /\ childOut = 0
    /\ pipe = <<>>
    /\ consumed = <<>>
    /\ sinkErr = "none"
    /\ teeWrites = <<>>
    /\ mapBefore = EmptyMap /\ lastFresh = EmptyMap
    /\ unchangedAtCall = FALSE /\ changed = FALSE
    /\ loads = 0 /\ edits = 0
    /\ lastSetup = [ran |-> FALSE, existed |-> FALSE, dir |-> <<>>, raised |-> "none"]

\* The lifecycle: any entry scripts, any codepaths.txt, a run directory that
\* may exist already (a run started in the same second)
Init ==
    /\ InitCommon
    /\ srcMainPy \in BOOLEAN /\ srcMainSh \in BOOLEAN
    /\ codepaths \in {NoFile} \cup {File(ls) : ls \in SeqsUpTo(CodeLines, MaxLines)}
    /\ datapaths = File(<<<<"k", "=", "/", "d", "\n">>, <<"j", "=", "r", "\n">>>>)
    /\ dataExists = {<<"/", "d">>}
    /\ expDir \in BOOLEAN
    /\ codeDirE = expDir /\ resultsDirE = expDir


----------------------------------------------------------------------------
(* Control *)

\* an exception leaves the running orchestration.  Under __main__ it ends the
\* process with status 1; in an embedding script it is caught, or ends the
\* process likewise
Raise(e, f) ==
    /\ exc' = e
    /\ excIn' = f
    /\ steps' = <<>>
    /\ IF mode = "embedded"
       THEN \E caught \in BOOLEAN :
               IF caught THEN pc' = "user" /\ exitStatus' = exitStatus
                         ELSE pc' = "exit" /\ exitStatus' = 1
       ELSE pc' = "exit" /\ exitStatus' = 1

\* the status of a process whose __main__ block ran to its end
EndOfMainStatus == 0

\* a lifecycle call returned: on to the next one, or back to the caller
Finish(rest) ==
    /\ steps' = rest
    /\ IF rest # <<>> THEN pc' = "steps" /\ exitStatus' = exitStatus
       ELSE IF mode = "embedded" THEN pc' = "user" /\ exitStatus' = exitStatus
       ELSE pc' = "exit" /\ exitStatus' = EndOfMainStatus

AtStep(name) == pc = "steps" /\ steps # <<>> /\ Head(steps) = name

\* load_data_paths, whoever calls it
DoLoad ==
    /\ DATA_PATHS' = LoadDataPaths(DATA_PATHS, datapaths, dataExists)
    /\ terminal' = terminal \o
                   (IF datapaths.ex THEN LoadWarnings(datapaths.lines, dataExists)
                    ELSE <<>>)
    /\ mapBefore' = DATA_PATHS
    /\ lastFresh' = LoadDataPaths(EmptyMap, datapaths, dataExists)
    /\ unchangedAtCall' = (loads >= 1 /\ ~changed)
    /\ changed' = FALSE
    /\ loads' = loads + 1

----------------------------------------------------------------------------
(* Actions *)

\* importing the module (or running it as __main__) runs load_data_paths
import ==
    /\ pc = "import"
    /\ DoLoad
    /\ pc' = IF mode = "embedded" THEN "user" ELSE "main"
    /\ UNCHANGED <<mode, steps, exc, excIn, exitStatus, starts, sysPath, teeOn,
                   srcVars, runDir, childVars, logOpen, teeWrites, edits, lastSetup>>

\* python3 logger.py --initialize
initialize_experiment_folder ==
    /\ pc = "main" /\ mode = "initialize"
    /\ srcMainPy' = TRUE /\ srcMainSh' = TRUE
    /\ codepaths' = File(<<>>) /\ datapaths' = File(<<>>)
    /\ terminal' = Append(terminal, "initialized")
    /\ pc' = "exit" /\ exitStatus' = EndOfMainStatus
    /\ UNCHANGED <<mode, steps, exc, excIn, starts, sysPath, teeOn, dataExists,
                   runDir, childVars, dataVars, logOpen, teeWrites, edits, lastSetup>>

\* python3 logger.py: the else branch of the __main__ block
main ==
    /\ pc = "main" /\ mode = "terminal"
    /\ steps' = MainSteps /\ pc' = "steps"
    /\ UNCHANGED <<mode, exc, excIn, exitStatus, starts, sysPath, teeOn, srcVars,
                   runDir, childVars, dataVars, terminal, logOpen, teeWrites,
                   edits, lastSetup>>

\* the embedding script calls logger.start_experiment()
start_experiment ==
    /\ pc = "user" /\ mode = "embedded" /\ starts < MaxStarts
    /\ steps' = StartSteps /\ pc' = "steps"
    /\ starts' = starts + 1
    /\ UNCHANGED <<mode, exc, excIn, exitStatus, sysPath, teeOn, srcVars, runDir,
                   childVars, dataVars, terminal, logOpen, teeWrites, edits,
                   lastSetup>>

\* os.makedirs(EXP_DIR) raises FileExistsError when EXP_DIR exists
makedirs_exist_ok == FALSE
makedirs_conflict == expDir

setup_experiment_directory ==
    /\ AtStep("setup")
    /\ IF makedirs_conflict
       THEN /\ Raise("FileExistsError", "setup_experiment_directory")
            /\ lastSetup' = [ran |-> TRUE, existed |-> expDir, dir |-> runDir,
                             raised |-> "FileExistsError"]
            /\ UNCHANGED runDir
       ELSE /\ expDir' = TRUE /\ codeDirE' = TRUE /\ resultsDirE' = TRUE
            /\ runMainPy' = srcMainPy /\ runMainSh' = srcMainSh
            /\ runCodepaths' = CopyOf(codepaths)
            /\ runDatapaths' = CopyOf(datapaths)
            /\ lastSetup' = [ran |-> TRUE, existed |-> expDir, dir |-> runDir,
                             raised |-> "none"]
            /\ Finish(Tail(steps))
            /\ UNCHANGED <<exc, excIn, envReport, codeDirs, codeFiles, logFile>>
    /\ UNCHANGED <<mode, starts, sysPath, teeOn, srcVars, childVars, dataVars,
                   terminal, logOpen, teeWrites, edits>>

\* The package inventory (line 36) and os.uname() (line 38, evaluated even
\* when SLURMD_NODENAME is set) are outside any try; only the Docker lookup is
\* inside one.  os.getenv never raises.
capture_environment_info ==
    /\ AtStep("capture")
    /\ \E pkgOK \in BOOLEAN, unameOK \in BOOLEAN, dockerOK \in BOOLEAN,
          underSlurm \in BOOLEAN :
          IF ~pkgOK
          THEN Raise("PackageMetadataError", "capture_environment_info")
               /\ UNCHANGED envReport
          ELSE IF ~unameOK
          THEN Raise("AttributeError", "capture_environment_info")
               /\ UNCHANGED envReport
          ELSE IF ~codeDirE
          THEN Raise("FileNotFoundError", "capture_environment_info")
               /\ UNCHANGED envReport
          ELSE /\ envReport' =
                    [ex |-> TRUE,
                     docker |-> IF dockerOK THEN "image"
                                ELSE "Could not retrieve Docker image",
                     slurm |-> IF underSlurm THEN "job" ELSE "Not running under Slurm",
                     node |-> IF underSlurm THEN "SLURMD_NODENAME" ELSE "uname"]
               /\ Finish(Tail(steps))
               /\ UNCHANGED <<exc, excIn>>
    /\ UNCHANGED <<mode, starts, sysPath, teeOn, srcVars, expDir, codeDirE,
                   resultsDirE, runMainPy, runMainSh, runCodepaths, runDatapaths,
                   codeDirs, codeFiles, logFile, childVars, dataVars, terminal,
                   logOpen, teeWrites, edits, lastSetup>>

copy_external_code ==
    /\ AtStep("copy")
    /\ LET start == [dirs |-> codeDirs, files |-> codeFiles, new |-> <<>>,
                     copied |-> FALSE, failed |-> FALSE]
           acc == IF codepaths.ex THEN StageLines(start, codepaths.lines) ELSE start
       IN  /\ codeDirs' = acc.dirs
           /\ codeFiles' = acc.files
           \* copytree makes the directories above its target
           /\ expDir' = (expDir \/ acc.copied)
           /\ codeDirE' = (codeDirE \/ acc.copied)
           /\ IF acc.failed
              THEN Raise("NotADirectoryError", "copy_external_code")
                   /\ UNCHANGED <<runCodepaths, sysPath>>
              ELSE IF ~(expDir \/ acc.copied)
              THEN Raise("FileNotFoundError", "copy_external_code")
                   /\ UNCHANGED <<runCodepaths, sysPath>>
              ELSE /\ runCodepaths' = Text(RewrittenText(acc.new))
                   /\ sysPath' = sysPath + 1
                   /\ Finish(Tail(steps))
                   /\ UNCHANGED <<exc, excIn>>
    /\ UNCHANGED <<mode, starts, teeOn, srcVars, resultsDirE, runMainPy, runMainSh,
                   runDatapaths, envReport, logFile, childVars, dataVars, terminal,
                   logOpen, teeWrites, edits, lastSetup>>

\* the call of load_data_paths in start_experiment
load_data_paths ==
    /\ AtStep("load")
    /\ DoLoad
    /\ Finish(Tail(steps))
    /\ UNCHANGED <<mode, exc, excIn, starts, sysPath, teeOn, srcVars, runDir,
                   childVars, logOpen, teeWrites, edits, lastSetup>>

\* the log file is opened in a with statement, which closes it when
\* log_terminal returns
log_terminal ==
    /\ AtStep("tee")
    /\ IF ~resultsDirE
       THEN Raise("FileNotFoundError", "log_terminal")
            /\ UNCHANGED <<logFile, teeOn, logOpen>>
       ELSE /\ logFile' = [ex |-> TRUE, lines |-> <<>>]
            /\ teeOn' = TRUE
            /\ logOpen' = FALSE
            /\ Finish(Tail(steps))
            /\ UNCHANGED <<exc, excIn>>
    /\ UNCHANGED <<mode, starts, sysPath, srcVars, expDir, codeDirE, resultsDirE,
                   runMainPy, runMainSh, runCodepaths, runDatapaths, envReport,
                   codeDirs, codeFiles, childVars, dataVars, terminal, teeWrites,
                   edits, lastSetup>>

\* Tee.write(obj), on a write of the embedding script to sys.stdout or
\* sys.stderr once they are Tee objects (both share the log file, and both
\* original streams are the terminal): the original stream first, then the log
\* file, whose write raises ValueError when the file is closed
Tee_write ==
    /\ pc = "user" /\ mode = "embedded" /\ teeOn
    /\ Len(teeWrites) < MaxWrites
    /\ \E stream \in {"stdout", "stderr"}, obj \in UserTexts :
          /\ teeWrites' = Append(teeWrites, obj)
          /\ terminal' = Append(terminal, obj)
          /\ IF logOpen
             THEN /\ logFile' = [logFile EXCEPT !.lines = Append(@, obj)]
                  /\ UNCHANGED <<pc, steps, exc, excIn, exitStatus>>
             ELSE /\ Raise("ValueError", "Tee.write")
                  /\ UNCHANGED logFile
    /\ UNCHANGED <<mode, starts, sysPath, teeOn, srcVars, expDir, codeDirE,
                   resultsDirE, runMainPy, runMainSh, runCodepaths, runDatapaths,
                   envReport, codeDirs, codeFiles, childVars, dataVars, logOpen,
                   edits, lastSetup>>


----------------------------------------------------------------------------
(* run_experiment and the child process *)

\* the script run, given which of main.py and main.sh the run directory holds
ResolveEntryPreferPy(hasPy, hasSh) == IF hasPy THEN "main.py" ELSE "main.sh"

ResolveEntry(hasPy, hasSh) == IF hasSh THEN "main.sh" ELSE "main.py"

\* run_experiment up to the spawned child: entry resolution, the log file
\* opened (truncated), Popen
run_experiment ==
    /\ AtStep("run")
    /\ IF ~runMainPy /\ ~runMainSh
       THEN /\ Raise("FileNotFoundError", "run_experiment")
            /\ UNCHANGED <<terminal, script, logFile, logOpen, child>>
       ELSE /\ terminal' = terminal \o
                  (IF runMainPy /\ runMainSh THEN <<"warn_both">> ELSE <<>>)
            /\ script' = ResolveEntry(runMainPy, runMainSh)
            /\ IF ~resultsDirE
               THEN /\ Raise("FileNotFoundError", "run_experiment")
                    /\ UNCHANGED <<logFile, logOpen, child>>
               ELSE /\ logFile' = [ex |-> TRUE, lines |-> <<>>]
                    /\ logOpen' = TRUE
                    /\ child' = "running"
                    /\ pc' = "stream"
                    /\ UNCHANGED <<steps, exc, excIn, exitStatus>>
    /\ UNCHANGED <<mode, starts, sysPath, teeOn, srcVars, expDir, codeDirE,
                   resultsDirE, runMainPy, runMainSh, runCodepaths, runDatapaths,
                   envReport, codeDirs, codeFiles, childExit, childOut, pipe,
                   consumed, sinkErr, dataVars, teeWrites, edits, lastSetup>>

\* the child prints a line to its stdout or stderr, both the pipe (the child
\* is followed while run_experiment reads from it)
child_print ==
    /\ pc = "stream" /\ child = "running" /\ childOut < MaxOut
    /\ pipe' = Append(pipe, ChildLine(childOut + 1))
    /\ childOut' = childOut + 1
    /\ UNCHANGED <<procVars, srcVars, runDir, script, child, childExit, consumed,
                   sinkErr, dataVars, terminal, logOpen, teeWrites, edits,
                   lastSetup>>

\* the child terminates with a status
child_exit ==
    /\ pc = "stream" /\ child = "running"
    /\ \E c \in 0..MaxExit : childExit' = c
    /\ child' = "exited"
    /\ UNCHANGED <<procVars, srcVars, runDir, script, childOut, pipe, consumed,
                   sinkErr, dataVars, terminal, logOpen, teeWrites, edits,
                   lastSetup>>

\* one turn of the loop over process.stdout: print(line), then
\* log_file.write(line).  Either write may raise (a closed terminal pipe, a
\* full disk); nothing catches it, and the with statement closes the log
run_experiment_line ==
    /\ pc = "stream" /\ pipe # <<>>
    /\ pipe' = Tail(pipe)
    /\ consumed' = Append(consumed, Head(pipe))
    /\ \E termOK \in BOOLEAN, logOK \in BOOLEAN :
          IF ~termOK
          THEN /\ sinkErr' = "terminal"
               /\ Raise("BrokenPipeError", "run_experiment")
               /\ logOpen' = FALSE
               /\ UNCHANGED <<terminal, logFile>>
          ELSE /\ terminal' = Append(terminal, Head(pipe))
               /\ IF ~logOK
                  THEN /\ sinkErr' = "log"
                       /\ Raise("OSError", "run_experiment")
                       /\ logOpen' = FALSE
                       /\ UNCHANGED logFile
                  ELSE /\ logFile' = [logFile EXCEPT !.lines = Append(@, Head(pipe))]
                       /\ UNCHANGED <<pc, steps, exc, excIn, exitStatus, sinkErr,
                                      logOpen>>
    /\ UNCHANGED <<mode, starts, sysPath, teeOn, srcVars, expDir, codeDirE,
                   resultsDirE, runMainPy, runMainSh, runCodepaths, runDatapaths,
                   envReport, codeDirs, codeFiles, script, child, childExit,
                   childOut, dataVars, teeWrites, edits, lastSetup>>

\* the child closed the pipe: process.stdout.close(), process.wait() (its
\* result is dropped), the log is closed and run_experiment returns None
run_experiment_wait ==
    /\ pc = "stream" /\ pipe = <<>> /\ child = "exited"
    /\ logOpen' = FALSE
    /\ Finish(Tail(steps))
    /\ UNCHANGED <<mode, exc, excIn, starts, sysPath, teeOn, srcVars, runDir,
                   childVars, dataVars, terminal, teeWrites, edits, lastSetup>>

Next ==
    \/ import
    \/ initialize_experiment_folder
    \/ main
    \/ start_experiment
    \/ setup_experiment_directory
    \/ capture_environment_info
    \/ copy_external_code
    \/ load_data_paths
    \/ log_terminal
    \/ Tee_write
    \/ run_experiment
    \/ child_print
    \/ child_exit
    \/ run_experiment_line
    \/ run_experiment_wait

Spec == Init /\ [][Next]_vars

----------------------------------------------------------------------------
(* The data-path map under a datapaths.txt and paths that change *)

InitData ==
    /\ InitCommon
    /\ mode = "embedded"
    /\ srcMainPy = TRUE /\ srcMainSh = FALSE
    /\ codepaths = NoFile
    /\ datapaths \in {NoFile} \cup {File(ls) : ls \in SeqsUpTo(DataLines, MaxLines)}
    /\ dataExists \in SUBSET DataPathNames
    /\ expDir = FALSE /\ codeDirE = FALSE /\ resultsDirE = FALSE

\* the embedding script calls logger.load_data_paths()
call_load_data_paths ==
    /\ pc = "user" /\ loads < MaxLoads
    /\ DoLoad
    /\ UNCHANGED <<procVars, srcVars, runDir, childVars, logOpen, teeWrites, edits,
                   lastSetup>>

\* datapaths.txt is removed, or gains or loses its last line
EditsOf(file) ==
    {NoFile}
    \cup {File(Append(file.lines, l)) :
             l \in IF Len(file.lines) < MaxLines THEN DataLines ELSE {}}
    \cup (IF file.lines # <<>>
          THEN {File(SubSeq(file.lines, 1, Len(file.lines) - 1))} ELSE {})

edit_datapaths ==
    /\ pc = "user" /\ edits < MaxEdits
    /\ \E f \in EditsOf(datapaths) : f # datapaths /\ datapaths' = f
    /\ changed' = TRUE
    /\ edits' = edits + 1
    /\ UNCHANGED <<procVars, srcMainPy, srcMainSh, codepaths, dataExists, runDir,
                   childVars, DATA_PATHS, mapBefore, lastFresh, unchangedAtCall,
                   loads, terminal, logOpen, teeWrites, lastSetup>>

\* a data path appears or disappears
change_path ==
    /\ pc = "user" /\ edits < MaxEdits
    /\ \E p \in DataPathNames :
          dataExists' = IF p \in dataExists THEN dataExists \ {p}
                        ELSE dataExists \cup {p}
    /\ changed' = TRUE
    /\ edits' = edits + 1
    /\ UNCHANGED <<procVars, srcMainPy, srcMainSh, codepaths, datapaths, runDir,
                   childVars, DATA_PATHS, mapBefore, lastFresh, unchangedAtCall,
                   loads, terminal, logOpen, teeWrites, lastSetup>>

NextData ==
    \/ import
    \/ call_load_data_paths
    \/ edit_datapaths
    \/ change_path

SpecData == InitData /\ [][NextData]_vars


----------------------------------------------------------------------------
(* Properties *)

\* the lines of the child among what reached the terminal
IsChildLine(l) == l \in ChildLines
Streamed == SelectSeq(terminal, IsChildLine)

\* the entries of codepaths.txt that point to existing paths
EntryExists(line) == PathExists(strip(line))
ExistingEntries == SelectSeq(codepaths.lines, EntryExists)
M == Len(ExistingEntries)
Range(seq) == {seq[i] : i \in 1..Len(seq)}
\* copy_external_code has returned
Staged == sysPath > 0

\* C1: in terminal mode, once the child has terminated and run_experiment has
\* returned, the exit status of the process equals the child's exit status.
C1_ExitStatusPropagated ==
    (mode = "terminal" /\ pc = "exit" /\ child = "exited" /\ excIn = "none")
        => exitStatus = childExit

\* C2: once log_terminal has returned, every write to sys.stdout or sys.stderr
\* reaches the log file as well as the original stream, and none raises.
C2_TeeDeliversEveryWrite ==
    teeOn =>
        /\ exc # "ValueError"
        /\ Len(logFile.lines) = Len(teeWrites)
        /\ \A i \in 1..Len(teeWrites) : logFile.lines[i] = teeWrites[i]

\* C3: after any sequence of calls of load_data_paths, the map is exactly what
\* the last call alone computes, and get_data_path answers from that.
C3_LastCallWins ==
    /\ DATA_PATHS = lastFresh
    /\ \A key \in DOMAIN DATA_PATHS \cup DOMAIN lastFresh :
          get_data_path(DATA_PATHS, key) = get_data_path(lastFresh, key)

\* C4: a second call of load_data_paths with datapaths.txt and the existence of
\* the paths unchanged since the call before leaves the map as that call left it.
C4_LoadTwiceSameMap ==
    (loads >= 2 /\ unchangedAtCall) => DATA_PATHS = mapBefore

C4_Witness ==
    /\ loads >= 2 /\ unchangedAtCall
    /\ datapaths = File(<<<<"k", "=", "/", "d", "\n">>, <<"k", "=", "r", "\n">>>>)
    /\ dataExists = DataPathNames
    /\ <<"k">> \in DOMAIN DATA_PATHS
    /\ DATA_PATHS[<<"k">>] = <<"/", "w", "/", "r">>

C6_CaptureNeverAborts ==
    /\ excIn # "capture_environment_info"
    /\ (lastSetup.ran /\ lastSetup.raised = "none" /\ ~AtStep("capture"))
          => envReport.ex

\* C7: the entry script run_experiment runs is decided by which of main.py and
\* main.sh the run directory holds: main.py alone, main.py; main.sh alone,
\* main.sh; both, main.sh with a warning; neither, FileNotFoundError with no
\* child spawned and no terminal_output.txt opened.
C7_EntryResolution ==
    /\ (pc = "stream" \/ child # "none") => script # "none"
    /\ script = "main.py" => (runMainPy /\ ~runMainSh)
    /\ script = "main.sh" => runMainSh
    /\ script # "none" => (Contains(terminal, "warn_both") <=> (runMainPy /\ runMainSh))
    /\ (~runMainPy /\ ~runMainSh) => (script = "none" /\ child = "none")
    /\ (mode = "terminal" /\ lastSetup.raised = "none" /\ ~runMainPy /\ ~runMainSh)
          => ~logFile.ex
    /\ (mode = "terminal" /\ pc = "exit" /\ excIn = "none" /\ lastSetup.ran)
          => script # "none"
    /\ (excIn = "run_experiment" /\ exc = "FileNotFoundError")
          => (~runMainPy /\ ~runMainSh /\ script = "none" /\ ~logFile.ex)

C7_Witness ==
    /\ script = "main.sh" /\ runMainPy /\ runMainSh
    /\ Contains(terminal, "warn_both")
    /\ child = "exited"

\* C8: when the run directory exists as setup_experiment_directory is called,
\* the call raises FileExistsError, nothing in the run directory is created or
\* changed, and no later lifecycle call is made.
C8_ExistingRunDirUntouched ==
    (lastSetup.ran /\ lastSetup.existed) =>
        /\ lastSetup.raised = "FileExistsError"
        /\ runDir = lastSetup.dir
        /\ (pc = "steps" => AtStep("setup"))

C8_Witness ==
    /\ lastSetup.ran /\ lastSetup.existed
    /\ starts = 2
    /\ envReport.ex /\ logFile.ex
    /\ excIn = "setup_experiment_directory"

\* C9: while run_experiment streams, the terminal and the log receive the same
\* lines in the same order, and a failed write to one sink neither skips the
\* line on the other sink nor ends the process.
C9_SinkFailureTolerated ==
    /\ (script # "none" /\ sinkErr = "none") => Streamed = logFile.lines
    /\ sinkErr = "terminal" => logFile.lines = consumed
    /\ sinkErr = "log" => Streamed = consumed
    /\ sinkErr # "none" => (exc = "none" /\ pc # "exit")

\* C10: environment.txt, staged code, the rewritten codepaths.txt and
\* terminal_output.txt are written only once the run directory and its Code
\* and Results subdirectories exist; and load_data_paths, at import before
\* the directory exists, writes nothing into it.
C10_DirectoryBeforeWriters ==
    /\ (envReport.ex \/ DOMAIN codeDirs # {} \/ codeFiles # {} \/ Staged
          \/ logFile.ex \/ runCodepaths.ex)
          => (expDir /\ codeDirE /\ resultsDirE)
    /\ (loads >= 1 /\ ~lastSetup.ran)
          => (~envReport.ex /\ ~logFile.ex /\ ~runCodepaths.ex /\ ~runDatapaths.ex
              /\ DOMAIN codeDirs = {} /\ codeFiles = {} /\ ~Staged)

C10_Witness ==
    /\ teeOn /\ logFile.ex /\ envReport.ex /\ Staged
    /\ DOMAIN codeDirs # {}
    /\ loads = 2

=============================================================================
